---- MODULE Spec2Model ----
(***************************************************************************)
(* A model of the design-pattern examples of the repository.  Every        *)
(* pattern is a self-contained example (a class or two and its client);    *)
(* each gets its own variables, its own actions and its own specification, *)
(* all starting from the one initial state in which nothing has been       *)
(* constructed yet.                                                        *)
(***************************************************************************)
EXTENDS Integers, Sequences, FiniteSets, TLC

VARIABLES
    \* Singleton (Singleton.mdx): the Logger class
    instance,     \* Logger.instance: Null, or the identity of a Logger
    nLoggers,     \* how many times the Logger constructor has run
    console,      \* the lines System.out has received from Logger
    refs,         \* the references a sequential client got from getInstance
    pc,           \* threads: where each thread is inside getInstance
    lockHolder,   \* threads: the holder of Logger.class's monitor, or NoThread
    sync,         \* threads: whether the assignment happens-before the thread's reads
    results,      \* threads: the references each thread's calls returned
    \* Prototype (Prototype.mdx): Circle and Rectangle objects
    heap,         \* the shapes constructed so far, by identity
    pairs,        \* <<original, clone>> for every clone() call made
    protoLast,    \* the last call made on a shape
    \* Iterator (TemplateMethod.mdx, "Iterator Pattern"): Playlist, PlaylistIterator
    playlistMade, \* whether new Playlist(songs) has run
    songs,        \* Playlist.songs, shared with every iterator
    position,     \* PlaylistIterator.position, per iterator created
    returned,     \* the songs each iterator's next() calls returned
    itLast,       \* the last call made on an iterator, with its outcome
    \* Memento (Memento.mdx): TextEditor, Memento, Caretaker
    content,      \* TextEditor.content
    history,      \* Caretaker.history, bottom first
    memLast,      \* the last call made, with its outcome
    script,       \* where the client is in the set/save ... undo scenario
    changes,      \* the contents set, in order, while the scenario is followed
    undone,       \* consecutive restore(undo()) calls made in the scenario
    \* Observer (Observer.mdx): Subject, StockMarket, Trader
    observers,    \* Subject.observers, in list order
    stockPrices,  \* StockMarket.stockPrices: a map from stock names to prices
    notified,     \* the update(stock, price) calls of the last setPrice, in order
    detached,     \* per trader: detach was called on it and attach has not been since
    obsLast,      \* the last call made on the stock market
    \* Builder (Builder page): House, the two builders, ConstructionDirector
    builders,     \* the builders constructed: their class and their House
    houses,       \* the House objects, by identity
    built,        \* per builder: the build steps that have been called on it
    \* Chain of Responsibility (ChainOfResponsability.mdx): the three handlers
    next,         \* Handler.next of each handler
    chainLast,    \* the last call made, with what it did
    callStack,    \* the handlers whose handleRequest is on the call stack, top last
    callRequest,  \* the request of the handleRequest call in progress
    callState,    \* "idle", "running", "returned" or "raised"
    callOut,      \* what the call in progress has printed or raised
    \* State (State page): MediaPlayer and its states
    currentState, \* MediaPlayer.currentState, by the class of the state object
    playerOut,    \* the lines the states have printed
    playerLast,   \* the last call made on the player
    \* Command (Strategy.mdx, "Command Pattern"): commands, CommandInvoker
    cmdCircle,    \* the Circle the commands act on
    commands,     \* the command objects constructed
    commandHistory, \* CommandInvoker.commandHistory, bottom first
    before,       \* per history entry: the circle just before that execution
    execIds,      \* per history entry: which execution it is (1 for the first, ...)
    undoneIds,    \* the executions undone so far, in the order they were undone
    nExecuted,    \* how many executeCommand calls have been made
    cmdLast,      \* the last call made
    \* Mediator (Strategy.mdx, "Mediator Pattern"): ChatMediator, User
    colleagues,   \* ChatMediator.colleagues, in list order
    received,     \* the receive(message) calls of the last send, in order
    medLast,      \* the last call made
    \* Template Method (TemplateMethod.mdx): OrderProcessor and its subclasses
    processors,   \* the processors constructed, by class
    orderCall,    \* the processOrder call in progress: its processor, its place
    invoked,      \* the steps the current (or last) processOrder has invoked
    orderOut,     \* the lines those steps have printed
    \* Strategy (Strategy.mdx): PaymentContext and the payment strategies
    strategy,     \* PaymentContext.strategy
    lastSet,      \* the argument of the latest setPaymentStrategy call, if any
    everSet,      \* the strategies passed to setPaymentStrategy so far
    payCalls,     \* the strategy.pay(amount) calls made by the last context.pay
    payLast,      \* the last call made on the context, with what it printed
    \* Decorator (Java page and the TypeScript files): Window and decorators
    windowLang,   \* which of the two programs runs: "java" or "ts"; "none" at first
    windows,      \* the Window objects: their class and the window they wrap
    drawn,        \* the last draw() call: the window and the lines printed
    \* Facade (Facade.mdx, Facade.ts): Facade and its three subsystems
    facades,      \* the facades constructed: the subsystem objects each holds
    facadeCall,   \* the facade call in progress: facade, operation, place
    facadeOps,    \* the facade calls made so far, in order
    subsystemLog, \* the calls made on subsystem objects so far, in order
    facadeOut     \* the lines printed so far

singletonVars == <<instance, nLoggers, console, refs, pc, lockHolder, sync, results>>
prototypeVars == <<heap, pairs, protoLast>>
iteratorVars == <<playlistMade, songs, position, returned, itLast>>
mementoVars == <<content, history, memLast, script, changes, undone>>
observerVars == <<observers, stockPrices, notified, detached, obsLast>>
builderVars == <<builders, houses, built>>
chainVars == <<next, chainLast>>
callVars == <<callStack, callRequest, callState, callOut>>
mediatorVars == <<colleagues, received, medLast>>
orderVars == <<processors, orderCall, invoked, orderOut>>
paymentVars == <<strategy, lastSet, everSet, payCalls, payLast>>
windowVars == <<windowLang, windows, drawn>>
facadeVars == <<facades, facadeCall, facadeOps, subsystemLog, facadeOut>>
playerVars == <<currentState, playerOut, playerLast>>
commandVars == <<cmdCircle, commands, commandHistory, before, execIds, undoneIds,
                 nExecuted, cmdLast>>
vars == <<singletonVars, prototypeVars, iteratorVars, mementoVars, observerVars,
          builderVars, chainVars, playerVars, commandVars, callVars, mediatorVars, orderVars,
    paymentVars, windowVars, facadeVars>>

\* The examples share nothing: a step of one leaves the others as they are.
notSingleton == <<prototypeVars, iteratorVars, mementoVars, observerVars,
                  builderVars, chainVars, playerVars, commandVars,
    callVars, mediatorVars, orderVars,
    paymentVars, windowVars, facadeVars>>
notPrototype == <<singletonVars, iteratorVars, mementoVars, observerVars,
                  builderVars, chainVars, playerVars, commandVars,
    callVars, mediatorVars, orderVars,
    paymentVars, windowVars, facadeVars>>
notIterator == <<singletonVars, prototypeVars, mementoVars, observerVars,
                 builderVars, chainVars, playerVars, commandVars,
    callVars, mediatorVars, orderVars,
    paymentVars, windowVars, facadeVars>>
notMemento == <<singletonVars, prototypeVars, iteratorVars, observerVars,
                builderVars, chainVars, playerVars, commandVars,
    callVars, mediatorVars, orderVars,
    paymentVars, windowVars, facadeVars>>
notObserver == <<singletonVars, prototypeVars, iteratorVars, mementoVars,
                 builderVars, chainVars, playerVars, commandVars,
    callVars, mediatorVars, orderVars,
    paymentVars, windowVars, facadeVars>>
notBuilder == <<singletonVars, prototypeVars, iteratorVars, mementoVars,
                observerVars, chainVars, playerVars, commandVars,
    callVars, mediatorVars, orderVars,
    paymentVars, windowVars, facadeVars>>
notChain == <<singletonVars, prototypeVars, iteratorVars, mementoVars,
              observerVars, builderVars, playerVars, commandVars,
    callVars, mediatorVars, orderVars,
    paymentVars, windowVars, facadeVars>>
notPlayer == <<singletonVars, prototypeVars, iteratorVars, mementoVars,
               observerVars, builderVars, chainVars, commandVars,
    callVars, mediatorVars, orderVars,
    paymentVars, windowVars, facadeVars>>
notCommand == <<singletonVars, prototypeVars, iteratorVars, mementoVars,
                observerVars, builderVars, chainVars, playerVars,
    callVars, mediatorVars, orderVars,
    paymentVars, windowVars, facadeVars>>
notCall == <<singletonVars, prototypeVars, iteratorVars, mementoVars,
             observerVars, builderVars, playerVars, commandVars, mediatorVars,
             orderVars, paymentVars, windowVars, facadeVars>>
notMediator == <<singletonVars, prototypeVars, iteratorVars, mementoVars,
                 observerVars, builderVars, chainVars, playerVars, commandVars,
                 callVars, orderVars, paymentVars, windowVars, facadeVars>>
notOrder == <<singletonVars, prototypeVars, iteratorVars, mementoVars,
              observerVars, builderVars, chainVars, playerVars, commandVars,
              callVars, mediatorVars, paymentVars, windowVars, facadeVars>>
notPayment == <<singletonVars, prototypeVars, iteratorVars, mementoVars,
                observerVars, builderVars, chainVars, playerVars, commandVars,
                callVars, mediatorVars, orderVars, windowVars, facadeVars>>
notWindow == <<singletonVars, prototypeVars, iteratorVars, mementoVars,
               observerVars, builderVars, chainVars, playerVars, commandVars,
               callVars, mediatorVars, orderVars, paymentVars, facadeVars>>
notFacade == <<singletonVars, prototypeVars, iteratorVars, mementoVars,
               observerVars, builderVars, chainVars, playerVars, commandVars,
               callVars, mediatorVars, orderVars, paymentVars, windowVars>>

(***************************************************************************)
(* Singleton                                                               *)
(***************************************************************************)

\* Java's null reference; Logger identities are 1, 2, ...
Null == 0

\* Bounds of the sequential client: getInstance calls and log lines.
MaxCalls == 3
MaxLog == 3
\* Bounds of the concurrent clients.
NumThreads == 2
MaxCallsPerThread == 2

Threads == 1 .. NumThreads
NoThread == 0

Messages ==
    {"This is the first log message.", "This is the second log message.",
     "Test log message."}

SingletonInit ==
    /\ instance = Null
    /\ nLoggers = 0
    /\ console = <<>>
    /\ refs = <<>>
    /\ pc = [t \in Threads |-> "idle"]
    /\ lockHolder = NoThread
    /\ sync = [t \in Threads |-> FALSE]
    /\ results = [t \in Threads |-> <<>>]

\* new Logger(): the constructor prints and the new object gets a fresh identity.
NewLogger ==
    /\ nLoggers' = nLoggers + 1
    /\ instance' = nLoggers + 1
    /\ console' = Append(console, "Logger initialized.")

\* A getInstance() that constructs on every call.
GetInstanceAlwaysNew ==
    /\ Len(refs) < MaxCalls
    /\ NewLogger
    /\ refs' = Append(refs, instance')
    /\ UNCHANGED <<pc, lockHolder, sync, results, notSingleton>>

\* Logger.getInstance() called by a single thread: the whole call is one step.
GetInstance ==
    /\ Len(refs) < MaxCalls
    /\ IF instance = Null
         THEN NewLogger
         ELSE UNCHANGED <<instance, nLoggers, console>>
    /\ refs' = Append(refs, instance')
    /\ UNCHANGED <<pc, lockHolder, sync, results, notSingleton>>

\* logger.log(message) on a reference the client holds.
Log(i, m) ==
    /\ i \in DOMAIN refs
    /\ refs[i] # Null
    /\ Len(console) < MaxLog + nLoggers
    /\ console' = Append(console, "Log: " \o m)
    /\ UNCHANGED <<instance, nLoggers, refs, pc, lockHolder, sync, results, notSingleton>>

NextSingleton ==
    \/ GetInstance
    \/ \E i \in 1 .. MaxCalls, m \in Messages : Log(i, m)

(***************************************************************************)
(* Singleton, several threads.  The field is a plain static field (not     *)
(* volatile), so a read outside the monitor races with the assignment      *)
(* inside it: such a read yields the value assigned or the field's default *)
(* value, null, until the reading thread has synchronized with the writer  *)
(* (entered the monitor after the writer left it, or is the writer).       *)
(***************************************************************************)

\* The values a read of Logger.instance by thread t may yield.
ReadInstance(t) ==
    IF sync[t] THEN {instance} ELSE {Null, instance}

\* A thread enters getInstance().
Call(t) ==
    /\ pc[t] = "idle"
    /\ Len(results[t]) < MaxCallsPerThread
    /\ pc' = [pc EXCEPT ![t] = "check1"]
    /\ UNCHANGED <<instance, nLoggers, console, refs, lockHolder, sync, results, notSingleton>>

\* if (instance == null), outside the monitor.
Check1(t) ==
    /\ pc[t] = "check1"
    /\ \E v \in ReadInstance(t) :
         pc' = [pc EXCEPT ![t] = IF v = Null THEN "lock" ELSE "return"]
    /\ UNCHANGED <<instance, nLoggers, console, refs, lockHolder, sync, results, notSingleton>>

\* synchronized (Logger.class) {: entering the monitor orders the thread
\* after everything done by the threads that held it before.
Lock(t) ==
    /\ pc[t] = "lock"
    /\ lockHolder = NoThread
    /\ lockHolder' = t
    /\ sync' = [sync EXCEPT ![t] = @ \/ instance # Null]
    /\ pc' = [pc EXCEPT ![t] = "check2"]
    /\ UNCHANGED <<instance, nLoggers, console, refs, results, notSingleton>>

\* if (instance == null), inside the monitor.
Check2(t) ==
    /\ pc[t] = "check2"
    /\ \E v \in ReadInstance(t) :
         pc' = [pc EXCEPT ![t] = IF v = Null THEN "new" ELSE "unlock"]
    /\ UNCHANGED <<instance, nLoggers, console, refs, lockHolder, sync, results, notSingleton>>

\* instance = new Logger();
Construct(t) ==
    /\ pc[t] = "new"
    /\ NewLogger
    /\ sync' = [sync EXCEPT ![t] = TRUE]
    /\ pc' = [pc EXCEPT ![t] = "unlock"]
    /\ UNCHANGED <<refs, lockHolder, results, notSingleton>>

\* } of the synchronized block.
Unlock(t) ==
    /\ pc[t] = "unlock"
    /\ lockHolder = t
    /\ lockHolder' = NoThread
    /\ pc' = [pc EXCEPT ![t] = "return"]
    /\ UNCHANGED <<instance, nLoggers, console, refs, sync, results, notSingleton>>

\* return instance;
Return(t) ==
    /\ pc[t] = "return"
    /\ \E v \in ReadInstance(t) :
         results' = [results EXCEPT ![t] = Append(@, v)]
    /\ pc' = [pc EXCEPT ![t] = "idle"]
    /\ UNCHANGED <<instance, nLoggers, console, refs, lockHolder, sync, notSingleton>>

NextSingletonMT ==
    \E t \in Threads :
        \/ Call(t)
        \/ Check1(t)
        \/ Lock(t)
        \/ Check2(t)
        \/ Construct(t)
        \/ Unlock(t)
        \/ Return(t)

(***************************************************************************)
(* Prototype.  A shape is a record of its fields; the heap gives every     *)
(* constructed shape an identity (its index), which is what a Java         *)
(* reference is.                                                           *)
(***************************************************************************)

\* Bound: how many shapes are constructed (by new or by clone).
MaxShapes == 2

\* The int and String values the clients pass.
Sizes == {10, 20}
Colors == {"Red", "Green"}

\* new Circle(radius, color)
Circle(radius, color) ==
    [kind |-> "Circle", radius |-> radius, color |-> color]

\* new Rectangle(width, height, color)
Rectangle(width, height, color) ==
    [kind |-> "Rectangle", width |-> width, height |-> height, color |-> color]

IsCircle(o) == o \in DOMAIN heap /\ heap[o].kind = "Circle"
IsRectangle(o) == o \in DOMAIN heap /\ heap[o].kind = "Rectangle"

\* A clone() that passes the fields to the constructor in the wrong places.
CloneOfMixedUp(s) ==
    IF s.kind = "Circle"
      THEN Circle(s.radius, s.color)
      ELSE Rectangle(s.height, s.width, s.color)

\* Circle.clone / Rectangle.clone: the shape the constructor call builds.
CloneOf(s) ==
    IF s.kind = "Circle"
      THEN Circle(s.radius, s.color)
      ELSE Rectangle(s.width, s.height, s.color)

\* A clone() that returns this.
AllocCloneReturnsThis(h, o) ==
    [heap |-> h, ref |-> o]

\* clone(): a new object on the heap, and the reference to it.
AllocClone(h, o) ==
    [heap |-> Append(h, CloneOf(h[o])), ref |-> Len(h) + 1]

\* The constructors, called by the client.
NewShape(s) ==
    /\ Len(heap) < MaxShapes
    /\ heap' = Append(heap, s)
    /\ protoLast' = [op |-> "new", target |-> Len(heap) + 1, ref |-> Len(heap) + 1]
    /\ UNCHANGED <<pairs, notPrototype>>

NewCircle(radius, color) == NewShape(Circle(radius, color))

NewRectangle(width, height, color) == NewShape(Rectangle(width, height, color))

\* A setter: this.<field> = value, on the object the reference denotes.
SetField(o, f, v) ==
    /\ heap' = [heap EXCEPT ![o] = [@ EXCEPT ![f] = v]]
    /\ protoLast' = [op |-> "set", target |-> o, ref |-> o]
    /\ UNCHANGED <<pairs, notPrototype>>

SetRadius(o, radius) == IsCircle(o) /\ SetField(o, "radius", radius)

SetWidth(o, width) == IsRectangle(o) /\ SetField(o, "width", width)

SetHeight(o, height) == IsRectangle(o) /\ SetField(o, "height", height)

\* Circle.setColor and Rectangle.setColor
SetColor(o, color) == o \in DOMAIN heap /\ SetField(o, "color", color)

\* o.clone(), the client keeping the reference returned.
Clone(o) ==
    /\ o \in DOMAIN heap
    /\ Len(heap) < MaxShapes
    /\ LET r == AllocClone(heap, o)
       IN /\ heap' = r.heap
          /\ pairs' = pairs \cup {<<o, r.ref>>}
          /\ protoLast' = [op |-> "clone", target |-> o, ref |-> r.ref]
    /\ UNCHANGED notPrototype

NextPrototype ==
    \/ \E r \in Sizes, c \in Colors : NewCircle(r, c)
    \/ \E w \in Sizes, h \in Sizes, c \in Colors : NewRectangle(w, h, c)
    \/ \E o \in 1 .. MaxShapes, r \in Sizes : SetRadius(o, r)
    \/ \E o \in 1 .. MaxShapes, w \in Sizes : SetWidth(o, w)
    \/ \E o \in 1 .. MaxShapes, h \in Sizes : SetHeight(o, h)
    \/ \E o \in 1 .. MaxShapes, c \in Colors : SetColor(o, c)
    \/ \E o \in 1 .. MaxShapes : Clone(o)

(***************************************************************************)
(* Iterator.  The playlist's array is shared by the iterators it creates;  *)
(* every iterator has a position of its own.  Java arrays start at 0 and   *)
(* sequences at 1: songs[p] of the code is songs[p + 1] here.              *)
(***************************************************************************)

\* Bounds: the length of a playlist and the number of iterators created.
MaxSongs == 3
MaxIterators == 2

SongNames == {"Song A", "Song B"}

\* The arrays a client may pass to new Playlist(...), the empty one included.
Playlists == UNION {[1 .. n -> SongNames] : n \in 0 .. MaxSongs}

\* A hasNext() that stops one element early.
HasNextOffByOne(p) == p + 1 < Len(songs)

\* PlaylistIterator.hasNext() at position p.
HasNext(p) == p < Len(songs)

\* A next() that increments the position before it looks at hasNext().
NextOfAdvancesOnThrow(p) ==
    IF ~HasNext(p)
      THEN [threw |-> TRUE, value |-> "IllegalStateException", position |-> p + 1]
      ELSE [threw |-> FALSE, value |-> songs[p + 1], position |-> p + 1]

\* A next() that starts over when the playlist is exhausted.
NextOfWrapsAround(p) ==
    IF ~HasNext(p)
      THEN [threw |-> Len(songs) = 0, value |-> IF Len(songs) = 0 THEN "IllegalStateException" ELSE songs[1],
            position |-> IF Len(songs) = 0 THEN p ELSE 1]
      ELSE [threw |-> FALSE, value |-> songs[p + 1], position |-> p + 1]

\* PlaylistIterator.next() at position p: whether it throws, the value it
\* returns (or the exception), and the position it leaves.
NextOf(p) ==
    IF ~HasNext(p)
      THEN [threw |-> TRUE, value |-> "IllegalStateException", position |-> p]
      ELSE [threw |-> FALSE, value |-> songs[p + 1], position |-> p + 1]

\* A position that is one static field, shared by all iterators.
StorePositionShared(pos, i, p) == [j \in DOMAIN pos |-> p]

\* The assignment to this.position of iterator i.
StorePosition(pos, i, p) == [pos EXCEPT ![i] = p]

\* new Playlist(songs)
NewPlaylist(s) ==
    /\ ~playlistMade
    /\ playlistMade' = TRUE
    /\ songs' = s
    /\ UNCHANGED <<position, returned, itLast, notIterator>>

\* Playlist.createIterator(): new PlaylistIterator(songs), at position 0.
CreateIterator ==
    /\ playlistMade
    /\ Len(position) < MaxIterators
    /\ position' = Append(position, 0)
    /\ returned' = Append(returned, <<>>)
    /\ itLast' = [op |-> "createIterator", it |-> Len(position) + 1, result |-> "none"]
    /\ UNCHANGED <<playlistMade, songs, notIterator>>

\* iterator.hasNext()
CallHasNext(i) ==
    /\ i \in DOMAIN position
    /\ itLast' = [op |-> "hasNext", it |-> i,
                  result |-> IF HasNext(position[i]) THEN "true" ELSE "false"]
    /\ UNCHANGED <<playlistMade, songs, position, returned, notIterator>>

\* iterator.next()
CallNext(i) ==
    /\ i \in DOMAIN position
    /\ LET r == NextOf(position[i])
       IN /\ position' = StorePosition(position, i, r.position)
          /\ returned' = IF r.threw THEN returned
                         ELSE [returned EXCEPT ![i] = Append(@, r.value)]
          /\ itLast' = [op |-> "next", it |-> i, result |-> r.value]
    /\ UNCHANGED <<playlistMade, songs, notIterator>>

NextIterator ==
    \/ \E s \in Playlists : NewPlaylist(s)
    \/ CreateIterator
    \/ \E i \in 1 .. MaxIterators : CallHasNext(i)
    \/ \E i \in 1 .. MaxIterators : CallNext(i)

(***************************************************************************)
(* Memento.  A Memento is the one-element sequence of the state it holds,  *)
(* and the null Memento reference is the empty sequence.  The history is   *)
(* a java.util.Stack, its top last.                                        *)
(***************************************************************************)

\* Bound: how many mementos the client lets the history hold.
MaxHistory == 3

\* TextEditor.content before any setContent: Java's null String.
NullContent == "null"
Contents == {"State 1", "State 2", "State 3"}

NullMemento == <<>>

\* new Memento(state), and Memento.getState()
Memento(state) == <<state>>
GetState(m) == m[1]

\* An undo() that hands out the oldest memento: a queue where a stack is meant.
UndoOfOldestFirst(h) ==
    IF h # <<>>
      THEN [result |-> h[1], history |-> Tail(h), raised |-> "none"]
      ELSE [result |-> NullMemento, history |-> h, raised |-> "none"]

\* An undo() that pops without looking: Stack.pop() throws on an empty stack.
UndoOfUnguarded(h) ==
    IF h # <<>>
      THEN [result |-> h[Len(h)], history |-> SubSeq(h, 1, Len(h) - 1), raised |-> "none"]
      ELSE [result |-> NullMemento, history |-> h, raised |-> "EmptyStackException"]

\* Caretaker.undo() on history h: the memento returned (or null), the history
\* left, and the exception raised, if any.
UndoOf(h) ==
    IF h # <<>>
      THEN [result |-> h[Len(h)], history |-> SubSeq(h, 1, Len(h) - 1), raised |-> "none"]
      ELSE [result |-> NullMemento, history |-> h, raised |-> "none"]

\* editor.setContent(c)
SetContent(c) ==
    /\ content' = c
    /\ memLast' = [op |-> "setContent", result |-> NullMemento, raised |-> "none"]
    /\ script' = IF script = "saved" /\ Len(changes) < MaxHistory THEN "set" ELSE "off"
    /\ changes' = IF script' = "set" THEN Append(changes, c) ELSE <<>>
    /\ undone' = 0
    /\ UNCHANGED <<history, notMemento>>

\* caretaker.saveState(editor.save())
SaveState ==
    /\ Len(history) < MaxHistory
    /\ history' = Append(history, Memento(content))
    /\ memLast' = [op |-> "saveState", result |-> Memento(content), raised |-> "none"]
    /\ script' = IF script = "set" THEN "saved" ELSE "off"
    /\ changes' = IF script' = "saved" THEN changes ELSE <<>>
    /\ undone' = 0
    /\ UNCHANGED <<content, notMemento>>

\* Memento memento = caretaker.undo();  the editor is not involved.
Undo ==
    /\ LET r == UndoOf(history)
       IN /\ history' = r.history
          /\ memLast' = [op |-> "undo", result |-> r.result, raised |-> r.raised]
    /\ script' = "off"
    /\ changes' = <<>>
    /\ undone' = 0
    /\ UNCHANGED <<content, notMemento>>

\* editor.restore(caretaker.undo()): restore dereferences the memento, so a
\* null memento raises NullPointerException before content is assigned.
UndoRestore ==
    /\ LET r == UndoOf(history)
           raised == IF r.raised # "none" THEN r.raised
                     ELSE IF r.result = NullMemento THEN "NullPointerException"
                     ELSE "none"
       IN /\ history' = r.history
          /\ content' = IF raised = "none" THEN GetState(r.result) ELSE content
          /\ memLast' = [op |-> "restore(undo)", result |-> r.result, raised |-> raised]
    /\ script' = IF script \in {"saved", "undoing"} /\ changes # <<>> THEN "undoing" ELSE "off"
    /\ changes' = IF script' = "undoing" THEN changes ELSE <<>>
    /\ undone' = IF script' = "undoing" /\ undone < Len(changes) THEN undone + 1 ELSE undone
    /\ UNCHANGED notMemento

NextMemento ==
    \/ \E c \in Contents : SetContent(c)
    \/ SaveState
    \/ Undo
    \/ UndoRestore

(***************************************************************************)
(* Observer.  The observers are an ArrayList: attach appends (the same     *)
(* observer may be in the list several times) and detach removes the first *)
(* occurrence.  A price is a double; the clients pass whole numbers.       *)
(***************************************************************************)

\* Bound: how long the client lets the observers list grow.
MaxObservers == 3

Traders == {"Alice", "Bob"}
Stocks == {"AAPL", "GOOG"}
Prices == {150, 160}

\* new HashMap<>()
EmptyMap == [s \in {} |-> 0]

\* Map.put(k, v)
Put(m, k, v) == [s \in DOMAIN m \cup {k} |-> IF s = k THEN v ELSE m[s]]

\* List.remove(Object): the list without the first occurrence of o, if any.
RemoveFirst(list, o) ==
    IF \E i \in DOMAIN list : list[i] = o
      THEN LET k == CHOOSE i \in DOMAIN list :
                      list[i] = o /\ \A j \in 1 .. i - 1 : list[j] # o
           IN SubSeq(list, 1, k - 1) \o SubSeq(list, k + 1, Len(list))
      ELSE list

\* A getPrice() that falls back to the price of another stock.
GetPriceAnyStock(m, stockName) ==
    IF stockName \in DOMAIN m THEN m[stockName]
    ELSE IF DOMAIN m # {} THEN m[CHOOSE s \in DOMAIN m : TRUE]
    ELSE 0

\* StockMarket.getPrice(stockName) on map m: getOrDefault(stockName, 0.0)
GetPrice(m, stockName) ==
    IF stockName \in DOMAIN m THEN m[stockName] ELSE 0

\* A notification loop that goes through the list backwards.
NotifyObserversBackwards(list, stockName, price) ==
    [i \in 1 .. Len(list) |-> <<list[Len(list) + 1 - i], stockName, price>>]

\* Subject.notifyObservers: the update calls made, in order.
NotifyObservers(list, stockName, price) ==
    [i \in 1 .. Len(list) |-> <<list[i], stockName, price>>]

\* Subject.attach(observer)
Attach(o) ==
    /\ Len(observers) < MaxObservers
    /\ observers' = Append(observers, o)
    /\ detached' = [detached EXCEPT ![o] = FALSE]
    /\ obsLast' = [op |-> "attach", observer |-> o, stock |-> "none", price |-> 0]
    /\ UNCHANGED <<stockPrices, notified, notObserver>>

\* Subject.detach(observer)
Detach(o) ==
    /\ observers' = RemoveFirst(observers, o)
    /\ detached' = [detached EXCEPT ![o] = TRUE]
    /\ obsLast' = [op |-> "detach", observer |-> o, stock |-> "none", price |-> 0]
    /\ UNCHANGED <<stockPrices, notified, notObserver>>

\* StockMarket.setPrice(stockName, price)
SetPrice(stockName, price) ==
    /\ stockPrices' = Put(stockPrices, stockName, price)
    /\ notified' = NotifyObservers(observers, stockName, price)
    /\ obsLast' = [op |-> "setPrice", observer |-> "none", stock |-> stockName, price |-> price]
    /\ UNCHANGED <<observers, detached, notObserver>>

NextObserver ==
    \/ \E o \in Traders : Attach(o)
    \/ \E o \in Traders : Detach(o)
    \/ \E s \in Stocks, p \in Prices : SetPrice(s, p)

(***************************************************************************)
(* Builder.  Each builder makes its own House in its constructor and sets  *)
(* one field of it per build step; the director calls the four steps.      *)
(***************************************************************************)

\* Bound: how many builders the client constructs.
MaxBuilders == 2

BuilderKinds == {"WoodenHouseBuilder", "BrickHouseBuilder"}
Parts == {"foundation", "structure", "roof", "interior"}

\* new House(): no field is assigned.
NewHouse ==
    [foundation |-> "null", structure |-> "null", roof |-> "null", interior |-> "null"]

\* Builders whose roofs are each other's.
MaterialRoofsSwapped(kind, part) ==
    IF kind = "WoodenHouseBuilder"
      THEN CASE part = "foundation" -> "Wooden Piles"
             [] part = "structure" -> "Wood and Bamboo"
             [] part = "roof" -> "Concrete Slabs"
             [] part = "interior" -> "Wooden Panels"
      ELSE CASE part = "foundation" -> "Concrete and Steel"
             [] part = "structure" -> "Brick and Mortar"
             [] part = "roof" -> "Wooden Shingles"
             [] part = "interior" -> "Plastered Walls"

\* The argument the build step for `part` of a builder of class `kind`
\* passes to the setter of the house.
Material(kind, part) ==
    IF kind = "WoodenHouseBuilder"
      THEN CASE part = "foundation" -> "Wooden Piles"
             [] part = "structure" -> "Wood and Bamboo"
             [] part = "roof" -> "Wooden Shingles"
             [] part = "interior" -> "Wooden Panels"
      ELSE CASE part = "foundation" -> "Concrete and Steel"
             [] part = "structure" -> "Brick and Mortar"
             [] part = "roof" -> "Concrete Slabs"
             [] part = "interior" -> "Plastered Walls"

\* The houses after builder b has run the build steps for the parts in ps.
BuildParts(b, ps) ==
    [houses EXCEPT ![builders[b].house] =
        [part \in Parts |-> IF part \in ps THEN Material(builders[b].kind, part)
                            ELSE @[part]]]

\* builder.getHouse()
GetHouse(b) == houses[builders[b].house]

\* new WoodenHouseBuilder() / new BrickHouseBuilder()
NewBuilder(kind) ==
    /\ Len(builders) < MaxBuilders
    /\ houses' = Append(houses, NewHouse)
    /\ builders' = Append(builders, [kind |-> kind, house |-> Len(houses) + 1])
    /\ built' = Append(built, {})
    /\ UNCHANGED notBuilder

NewWoodenHouseBuilder == NewBuilder("WoodenHouseBuilder")

NewBrickHouseBuilder == NewBuilder("BrickHouseBuilder")

\* One build step called on builder b.
BuildStep(b, part) ==
    /\ houses' = BuildParts(b, {part})
    /\ built' = [built EXCEPT ![b] = @ \cup {part}]
    /\ UNCHANGED <<builders, notBuilder>>

BuildFoundation(b) == BuildStep(b, "foundation")

BuildStructure(b) == BuildStep(b, "structure")

BuildRoof(b) == BuildStep(b, "roof")

BuildInterior(b) == BuildStep(b, "interior")

\* new ConstructionDirector(builder b).constructHouse()
ConstructHouse(b) ==
    /\ houses' = BuildParts(b, Parts)
    /\ built' = [built EXCEPT ![b] = Parts]
    /\ UNCHANGED <<builders, notBuilder>>

NextBuilder ==
    \/ NewWoodenHouseBuilder
    \/ NewBrickHouseBuilder
    \/ \E b \in DOMAIN builders : BuildFoundation(b)
    \/ \E b \in DOMAIN builders : BuildStructure(b)
    \/ \E b \in DOMAIN builders : BuildRoof(b)
    \/ \E b \in DOMAIN builders : BuildInterior(b)
    \/ \E b \in DOMAIN builders : ConstructHouse(b)

(***************************************************************************)
(* Chain of Responsibility.  One handler of each class; setNext may link   *)
(* them in any way.  handleRequest is one call: the handler it is called   *)
(* on and the handlers that call forwards to, on the same call stack.      *)
(***************************************************************************)

Handlers == {"Automated", "Agent", "Supervisor"}
NoHandler == "null"

\* The requests of Client.main, and one of HandlerTest.
Requests == {"basic", "intermediate", "complex", "unknown", "Automated"}

\* request.equals(...) in handleRequest of the class of handler h
Recognises(h, request) ==
    \/ h = "Automated" /\ request = "basic"
    \/ h = "Agent" /\ request = "intermediate"
    \/ h = "Supervisor" /\ request = "complex"

\* A handleRequest that looks at its next handler before the request.
DecideForwardFirst(h, request) ==
    IF next[h] # NoHandler THEN "forward"
    ELSE IF Recognises(h, request) THEN "resolve"
    ELSE "unable"

\* The branch handleRequest of handler h takes.
Decide(h, request) ==
    IF Recognises(h, request) THEN "resolve"
    ELSE IF next[h] # NoHandler THEN "forward"
    ELSE "unable"

\* What the branch prints.
PrintedLine(h, did, request) ==
    CASE did = "resolve" -> h \o "Handler: Resolving " \o request \o " request."
      [] did = "unable" -> h \o "Handler: Unable to process the request."
      [] OTHER -> ""

\* h.handleRequest(request), `seen` being the handlers already on the call
\* stack: the handlers invoked with the branch each took, what was printed,
\* and the error raised.  A handler that has forwarded the request and gets
\* it again forwards it again: the recursion ends with a StackOverflowError.
RECURSIVE HandleRequestOf(_, _, _)
HandleRequestOf(h, request, seen) ==
    LET did == Decide(h, request)
        here == <<[handler |-> h, did |-> did]>>
    IN IF did # "forward"
         THEN [steps |-> here, printed |-> PrintedLine(h, did, request),
               raised |-> "none"]
         ELSE IF next[h] \in seen \cup {h}
           THEN [steps |-> here, printed |-> "", raised |-> "StackOverflowError"]
           ELSE LET rest == HandleRequestOf(next[h], request, seen \cup {h})
                IN [steps |-> here \o rest.steps, printed |-> rest.printed,
                    raised |-> rest.raised]

\* h.setNext(n)
SetNext(h, n) ==
    /\ next' = [next EXCEPT ![h] = n]
    /\ chainLast' = [op |-> "setNext", handler |-> h, request |-> "none",
                     steps |-> <<>>, printed |-> "", raised |-> "none",
                     returned |-> "void"]
    /\ UNCHANGED notChain

\* h.handleRequest(request), called by the client
HandleRequest(h, request) ==
    /\ LET r == HandleRequestOf(h, request, {})
       IN chainLast' = [op |-> "handleRequest", handler |-> h, request |-> request,
                        steps |-> r.steps, printed |-> r.printed,
                        raised |-> r.raised, returned |-> "void"]
    /\ UNCHANGED <<next, notChain>>

NextChain ==
    \/ \E h \in Handlers, n \in Handlers \cup {NoHandler} : SetNext(h, n)
    \/ \E h \in Handlers, request \in Requests : HandleRequest(h, request)

(***************************************************************************)
(* Chain of Responsibility, one frame at a time.  next.handleRequest(...)  *)
(* is an ordinary nested call: the caller's frame stays on the stack until *)
(* the callee returns.  A thread's stack holds finitely many frames; the   *)
(* call that does not fit raises StackOverflowError.                       *)
(***************************************************************************)

\* Bound: the frames of handleRequest a thread's stack has room for; more
\* than there are handlers.
MaxStackDepth == 4

\* The handlers met from h by following next, Cardinality(Handlers) + 1
\* places of them; NoHandler from the place where the chain has ended.
ChainFrom(h) ==
    LET nth[i \in 1 .. Cardinality(Handlers) + 1] ==
            IF i = 1 THEN h
            ELSE IF nth[i - 1] = NoHandler THEN NoHandler
            ELSE next[nth[i - 1]]
    IN nth

\* A forwarding call that reuses the frame of its caller.
ForwardToReusesFrame(stack, h) ==
    [stack |-> SubSeq(stack, 1, Len(stack) - 1) \o <<h>>, raised |-> "none"]

\* next.handleRequest(request) called from the top frame of `stack`, h being
\* next: the new frame, or the error when the stack has no room.
ForwardTo(stack, h) ==
    IF Len(stack) >= MaxStackDepth
      THEN [stack |-> stack, raised |-> "StackOverflowError"]
      ELSE [stack |-> Append(stack, h), raised |-> "none"]

\* The call in progress: the chain it was started on, whether setNext has
\* made that chain cyclic, and whether no handler on it recognises the
\* request.
CallChain == ChainFrom(callStack[1])

CallChainCyclic == CallChain[Cardinality(Handlers) + 1] # NoHandler

CallUnrecognised ==
    \A i \in DOMAIN CallChain :
        CallChain[i] = NoHandler \/ ~Recognises(CallChain[i], callRequest)

\* The client calls h.handleRequest(request).
BeginHandleRequest(h, request) ==
    /\ callState = "idle"
    /\ callStack' = <<h>>
    /\ callRequest' = request
    /\ callState' = "running"
    /\ callOut' = ""
    /\ UNCHANGED <<chainVars, notCall>>

\* The body of handleRequest in the top frame.
HandleStep ==
    /\ callState = "running"
    /\ LET h == callStack[Len(callStack)]
           did == Decide(h, callRequest)
           r == ForwardTo(callStack, next[h])
       IN IF did = "forward"
            THEN /\ callStack' = r.stack
                 /\ callState' = IF r.raised = "none" THEN "running" ELSE "raised"
                 /\ callOut' = IF r.raised = "none" THEN callOut ELSE r.raised
            ELSE /\ callState' = "returned"
                 /\ callOut' = PrintedLine(h, did, callRequest)
                 /\ UNCHANGED callStack
    /\ UNCHANGED <<callRequest, chainVars, notCall>>

\* The frames unwind and the client goes on.
EndHandleRequest ==
    /\ callState \in {"returned", "raised"}
    /\ callStack' = <<>>
    /\ callRequest' = "none"
    /\ callState' = "idle"
    /\ callOut' = ""
    /\ UNCHANGED <<chainVars, notCall>>

\* The client calls setNext between two requests.
SetNextBetweenCalls(h, n) ==
    /\ callState = "idle"
    /\ SetNext(h, n)

NextChainCalls ==
    \/ \E h \in Handlers, n \in Handlers \cup {NoHandler} : SetNextBetweenCalls(h, n)
    \/ \E h \in Handlers, request \in Requests : BeginHandleRequest(h, request)
    \/ HandleStep
    \/ EndHandleRequest

(***************************************************************************)
(* State.  The MediaPlayer delegates play, pause and stop to its current   *)
(* state object, which prints a line and may set the player's next state.  *)
(***************************************************************************)

\* Bound: how many calls the client makes on the player.
MaxPlayerCalls == 6

PlayerOps == {"play", "pause", "stop"}

\* PlayingState: the line printed and the state the player is left in.
PlayingState(op) ==
    CASE op = "play" ->
           [line |-> "Already playing!", state |-> "PlayingState", raised |-> "none"]
      [] op = "pause" ->
           [line |-> "Pausing playback...", state |-> "PausedState", raised |-> "none"]
      [] op = "stop" ->
           [line |-> "Stopping playback...", state |-> "StoppedState", raised |-> "none"]

\* A PausedState whose play() forgets to set the state.
PausedStatePlayKeepsState(op) ==
    CASE op = "play" ->
           [line |-> "Resuming playback...", state |-> "PausedState", raised |-> "none"]
      [] op = "pause" ->
           [line |-> "Already paused!", state |-> "PausedState", raised |-> "none"]
      [] op = "stop" ->
           [line |-> "Stopping playback...", state |-> "StoppedState", raised |-> "none"]

\* PausedState
PausedState(op) ==
    CASE op = "play" ->
           [line |-> "Resuming playback...", state |-> "PlayingState", raised |-> "none"]
      [] op = "pause" ->
           [line |-> "Already paused!", state |-> "PausedState", raised |-> "none"]
      [] op = "stop" ->
           [line |-> "Stopping playback...", state |-> "StoppedState", raised |-> "none"]

\* A StoppedState whose pause() throws instead of printing.
StoppedStatePauseThrows(op) ==
    CASE op = "play" ->
           [line |-> "Starting playback...", state |-> "PlayingState", raised |-> "none"]
      [] op = "pause" ->
           [line |-> "Cannot pause. The media player is stopped.",
            state |-> "StoppedState", raised |-> "IllegalStateException"]
      [] op = "stop" ->
           [line |-> "Already stopped!", state |-> "StoppedState", raised |-> "none"]

\* StoppedState
StoppedState(op) ==
    CASE op = "play" ->
           [line |-> "Starting playback...", state |-> "PlayingState", raised |-> "none"]
      [] op = "pause" ->
           [line |-> "Cannot pause. The media player is stopped.",
            state |-> "StoppedState", raised |-> "none"]
      [] op = "stop" ->
           [line |-> "Already stopped!", state |-> "StoppedState", raised |-> "none"]

\* currentState.play(this) / pause(this) / stop(this): dynamic dispatch
Dispatch(state, op) ==
    CASE state = "PlayingState" -> PlayingState(op)
      [] state = "PausedState" -> PausedState(op)
      [] state = "StoppedState" -> StoppedState(op)

\* One call on the player.
PlayerCall(op) ==
    /\ Len(playerOut) < MaxPlayerCalls
    /\ LET r == Dispatch(currentState, op)
       IN /\ playerOut' = Append(playerOut, r.line)
          /\ currentState' = r.state
          /\ playerLast' = [op |-> op, raised |-> r.raised]
    /\ UNCHANGED notPlayer

\* MediaPlayer.play()
Play == PlayerCall("play")

\* MediaPlayer.pause()
Pause == PlayerCall("pause")

\* MediaPlayer.stop()
Stop == PlayerCall("stop")

NextPlayer ==
    \/ Play
    \/ Pause
    \/ Stop

(***************************************************************************)
(* Command.  A command reads the attribute it will change when it is       *)
(* constructed and keeps that value for undo(); the invoker keeps the      *)
(* executed commands on a stack.                                           *)
(***************************************************************************)

\* Bounds: how many commands the client constructs, and how many
\* executeCommand calls it makes.
MaxCommands == 2
MaxExecuted == 3

NewSizes == {15, 20}
NewColors == {"Blue"}

\* new ResizeCommand(shape, newSize) on a circle in state `circle`
ResizeCommand(circle, newSize) ==
    [kind |-> "Resize", previous |-> circle.radius, new |-> newSize]

\* new ChangeColorCommand(shape, newColor) on a circle in state `circle`
ChangeColorCommand(circle, newColor) ==
    [kind |-> "ChangeColor", previous |-> circle.color, new |-> newColor]

\* command.execute(): setRadius(newSize) or setColor(newColor)
Execute(circle, command) ==
    IF command.kind = "Resize"
      THEN [circle EXCEPT !.radius = command.new]
      ELSE [circle EXCEPT !.color = command.new]

\* command.undo(): setRadius(previousSize) or setColor(previousColor)
UndoCommand(circle, command) ==
    IF command.kind = "Resize"
      THEN [circle EXCEPT !.radius = command.previous]
      ELSE [circle EXCEPT !.color = command.previous]

NewResizeCommand(newSize) ==
    /\ Len(commands) < MaxCommands
    /\ commands' = Append(commands, ResizeCommand(cmdCircle, newSize))
    /\ cmdLast' = [op |-> "new", command |-> Len(commands) + 1, raised |-> "none"]
    /\ UNCHANGED <<cmdCircle, commandHistory, before, execIds, undoneIds, nExecuted,
                   notCommand>>

NewChangeColorCommand(newColor) ==
    /\ Len(commands) < MaxCommands
    /\ commands' = Append(commands, ChangeColorCommand(cmdCircle, newColor))
    /\ cmdLast' = [op |-> "new", command |-> Len(commands) + 1, raised |-> "none"]
    /\ UNCHANGED <<cmdCircle, commandHistory, before, execIds, undoneIds, nExecuted,
                   notCommand>>

\* An undoLastCommand that takes the oldest command of the history.
UndoLastOfOldestFirst(stack) ==
    IF stack # <<>>
      THEN [popped |-> TRUE, lastCommand |-> Head(stack),
            history |-> Tail(stack), raised |-> "none"]
      ELSE [popped |-> FALSE, lastCommand |-> 0, history |-> stack,
            raised |-> "none"]

\* undoLastCommand on the history `stack`: whether a command is popped,
\* which one, the history left, and the error raised (Stack.pop is called
\* only on a non-empty stack, so none).
UndoLastOf(stack) ==
    IF stack # <<>>
      THEN [popped |-> TRUE, lastCommand |-> stack[Len(stack)],
            history |-> SubSeq(stack, 1, Len(stack) - 1), raised |-> "none"]
      ELSE [popped |-> FALSE, lastCommand |-> 0, history |-> stack,
            raised |-> "none"]

\* CommandInvoker.executeCommand(command c)
ExecuteCommand(c) ==
    /\ nExecuted < MaxExecuted
    /\ cmdCircle' = Execute(cmdCircle, commands[c])
    /\ commandHistory' = Append(commandHistory, c)
    /\ before' = Append(before, cmdCircle)
    /\ execIds' = Append(execIds, nExecuted + 1)
    /\ nExecuted' = nExecuted + 1
    /\ cmdLast' = [op |-> "executeCommand", command |-> c, raised |-> "none"]
    /\ UNCHANGED <<commands, undoneIds, notCommand>>

\* CommandInvoker.undoLastCommand()
UndoLastCommand ==
    /\ LET r == UndoLastOf(commandHistory)
       IN /\ commandHistory' = r.history
          /\ cmdLast' = [op |-> "undoLastCommand", command |-> r.lastCommand,
                         raised |-> r.raised]
          /\ IF r.popped
               THEN /\ cmdCircle' = UndoCommand(cmdCircle, commands[r.lastCommand])
                    /\ before' = SubSeq(before, 1, Len(before) - 1)
                    /\ execIds' = SubSeq(execIds, 1, Len(execIds) - 1)
                    /\ undoneIds' = Append(undoneIds, execIds[Len(execIds)])
               ELSE UNCHANGED <<cmdCircle, before, execIds, undoneIds>>
    /\ UNCHANGED <<commands, nExecuted, notCommand>>

NextCommand ==
    \/ \E n \in NewSizes : NewResizeCommand(n)
    \/ \E c \in NewColors : NewChangeColorCommand(c)
    \/ \E c \in DOMAIN commands : ExecuteCommand(c)
    \/ UndoLastCommand

(***************************************************************************)
(* Mediator.  The colleagues are an ArrayList; a User sends through the    *)
(* mediator, which calls receive on the colleagues in list order.          *)
(***************************************************************************)

\* Bound: how long the client lets the colleagues list grow.
MaxColleagues == 3

Users == {"Alice", "Bob", "Charlie"}
ChatMessages == {"Hello, everyone!", "Hi Alice!"}

\* A sendMessage without the test for the sender.
SendMessageToAll(list, message, sender) ==
    [i \in 1 .. Len(list) |-> <<list[i], message>>]

\* ChatMediator.sendMessage(message, sender) on the list: the receive calls
\* made, in order.
SendMessage(list, message, sender) ==
    LET others == SelectSeq(list, LAMBDA colleague : colleague # sender)
    IN [i \in 1 .. Len(others) |-> <<others[i], message>>]

\* ChatMediator.addColleague(colleague)
AddColleague(colleague) ==
    /\ Len(colleagues) < MaxColleagues
    /\ colleagues' = Append(colleagues, colleague)
    /\ medLast' = [op |-> "addColleague", user |-> colleague, message |-> "none",
                   raised |-> "none"]
    /\ UNCHANGED <<received, notMediator>>

\* User.send(message) of user u: mediator.sendMessage(message, this)
Send(u, message) ==
    /\ received' = SendMessage(colleagues, message, u)
    /\ medLast' = [op |-> "send", user |-> u, message |-> message, raised |-> "none"]
    /\ UNCHANGED <<colleagues, notMediator>>

NextMediator ==
    \/ \E u \in Users : AddColleague(u)
    \/ \E u \in Users, message \in ChatMessages : Send(u, message)

(***************************************************************************)
(* Template Method.  processOrder is final: every processor runs the body  *)
(* written in OrderProcessor, one step call after the other; the steps are *)
(* the subclass's.  The calls of one client follow each other.             *)
(***************************************************************************)

\* Bound: how many processors the client constructs.
MaxProcessors == 2

ProcessorKinds == {"StandardOrder", "GiftOrder", "BulkOrder"}

\* A processOrder that takes the payment before it applies the discount.
ProcessOrderBodyPaymentFirst ==
    <<"selectItems", "doPayment", "applyDiscount", "deliverItems">>

\* The statements of processOrder, in program order.
ProcessOrderBody ==
    <<"selectItems", "applyDiscount", "doPayment", "deliverItems">>

\* What the step of a processor of class `kind` prints.
StepLine(kind, step) ==
    kind \o ": " \o
    CASE kind = "StandardOrder" ->
           (CASE step = "selectItems" -> "Selecting items from the catalog."
              [] step = "applyDiscount" -> "Applying no discounts."
              [] step = "doPayment" -> "Processing payment through a credit card."
              [] step = "deliverItems" -> "Delivering items via standard shipping.")
      [] kind = "GiftOrder" ->
           (CASE step = "selectItems" -> "Selecting gift items from the gift shop."
              [] step = "applyDiscount" -> "Applying a 10% gift discount."
              [] step = "doPayment" -> "Processing payment through PayPal."
              [] step = "deliverItems" -> "Delivering items with gift wrapping.")
      [] kind = "BulkOrder" ->
           (CASE step = "selectItems" -> "Selecting items from the bulk warehouse."
              [] step = "applyDiscount" -> "Applying a 20% bulk discount."
              [] step = "doPayment" -> "Processing payment through corporate account."
              [] step = "deliverItems" -> "Delivering items via freight shipping.")

\* new StandardOrderProcessor() / GiftOrderProcessor() / BulkOrderProcessor(),
\* by the client, so not while a processOrder call is running.
NewOrderProcessor(kind) ==
    /\ orderCall.at \notin DOMAIN ProcessOrderBody
    /\ Len(processors) < MaxProcessors
    /\ processors' = Append(processors, kind)
    /\ UNCHANGED <<orderCall, invoked, orderOut, notOrder>>

\* The client calls processOrder() on processor p; no call is in progress.
ProcessOrder(p) ==
    /\ orderCall.at \notin DOMAIN ProcessOrderBody
    /\ orderCall' = [processor |-> p, at |-> 1]
    /\ invoked' = <<>>
    /\ orderOut' = <<>>
    /\ UNCHANGED <<processors, notOrder>>

\* The next statement of processOrder: a call of a step on `this`.
ProcessOrderStep ==
    /\ orderCall.at \in DOMAIN ProcessOrderBody
    /\ LET step == ProcessOrderBody[orderCall.at]
       IN /\ invoked' = Append(invoked, [on |-> orderCall.processor, step |-> step])
          /\ orderOut' = Append(orderOut, StepLine(processors[orderCall.processor], step))
    /\ orderCall' = [orderCall EXCEPT !.at = @ + 1]
    /\ UNCHANGED <<processors, notOrder>>

NextOrder ==
    \/ \E kind \in ProcessorKinds : NewOrderProcessor(kind)
    \/ \E p \in DOMAIN processors : ProcessOrder(p)
    \/ ProcessOrderStep

(***************************************************************************)
(* Strategy.  One strategy object of each class, made with the arguments   *)
(* of Client.main; setPaymentStrategy accepts any reference, null too.     *)
(* The amounts are whole numbers of dollars, as doubles.                   *)
(***************************************************************************)

Strategies == {"CreditCardPayment", "PayPalPayment", "GooglePayPayment"}
NoStrategy == "null"
Amounts == {50, 150, 300}

\* "" + amount for a double with a whole value: Double.toString
AmountText(amount) == ToString(amount) \o ".0"

\* strategy.pay(amount): the line the strategy prints.
StrategyPay(s, amount) ==
    "Paid $" \o AmountText(amount) \o
    CASE s = "CreditCardPayment" -> " using Credit Card: 1234-5678-9876-5432"
      [] s = "PayPalPayment" -> " using PayPal account: user@example.com"
      [] s = "GooglePayPayment" -> " using Google Pay with phone number: +123456789"

\* A setPaymentStrategy that keeps the strategy it already has.
StoreStrategyKeepsFirst(old, new) == IF old = NoStrategy THEN new ELSE old

\* The assignment of setPaymentStrategy: the new value of the field.
StoreStrategy(old, new) == new

\* A pay() without the null test.
PayOfUnguarded(s, amount) ==
    IF s = NoStrategy
      THEN [calls |-> <<>>, printed |-> "", raised |-> "NullPointerException"]
      ELSE [calls |-> <<[strategy |-> s, amount |-> amount]>>,
            printed |-> StrategyPay(s, amount), raised |-> "none"]

\* PaymentContext.pay(amount) with the field holding s: the calls it makes
\* on strategies, what is printed, the error raised.
PayOf(s, amount) ==
    IF s = NoStrategy
      THEN [calls |-> <<>>, printed |-> "No payment strategy set!", raised |-> "none"]
      ELSE [calls |-> <<[strategy |-> s, amount |-> amount]>>,
            printed |-> StrategyPay(s, amount), raised |-> "none"]

\* PaymentContext.setPaymentStrategy(s)
SetPaymentStrategy(s) ==
    /\ strategy' = StoreStrategy(strategy, s)
    /\ lastSet' = s
    /\ everSet' = everSet \cup {s}
    /\ payLast' = [op |-> "setPaymentStrategy", amount |-> 0, printed |-> "",
                   raised |-> "none"]
    /\ UNCHANGED <<payCalls, notPayment>>

\* PaymentContext.pay(amount)
Pay(amount) ==
    /\ LET r == PayOf(strategy, amount)
       IN /\ payCalls' = r.calls
          /\ payLast' = [op |-> "pay", amount |-> amount, printed |-> r.printed,
                         raised |-> r.raised]
    /\ UNCHANGED <<strategy, lastSet, everSet, notPayment>>

NextPayment ==
    \/ \E s \in Strategies \cup {NoStrategy} : SetPaymentStrategy(s)
    \/ \E amount \in Amounts : Pay(amount)

(***************************************************************************)
(* Decorator.  The Java page and the TypeScript files hold the same        *)
(* structure with different decorators; a run is one of the two programs.  *)
(* A decorator gets the window it wraps in its constructor and keeps it.   *)
(***************************************************************************)

\* Bound: how many Window objects the client constructs.
MaxWindows == 4

Languages == {"java", "ts"}

\* The decorator classes of each program.
DecoratorKinds(lang) ==
    IF lang = "java" THEN {"BorderDecorator", "VerticalScrollBarDecorator"}
    ELSE {"BorderedWindowDecorator"}

\* What the decorator's own drawing method prints.
OwnDrawing(kind) ==
    CASE kind = "BorderDecorator" -> "Drawing a border"
      [] kind = "VerticalScrollBarDecorator" -> "Drawing a vertical scroll bar"
      [] kind = "BorderedWindowDecorator" -> "Drawing a border around the window"

\* A decorator draw() that draws its decoration before the wrapped window.
RECURSIVE DrawOfDecorationFirst(_)
DrawOfDecorationFirst(w) ==
    IF windows[w].kind = "SimpleWindow"
      THEN <<"Drawing a simple window">>
      ELSE <<OwnDrawing(windows[w].kind)>> \o DrawOfDecorationFirst(windows[w].window)

\* draw() of window w: the lines printed, in order.  A decorator calls
\* super.draw(), which is window.draw(), and then its own drawing method.
RECURSIVE DrawOf(_)
DrawOf(w) ==
    IF windows[w].kind = "SimpleWindow"
      THEN <<"Drawing a simple window">>
      ELSE DrawOf(windows[w].window) \o <<OwnDrawing(windows[w].kind)>>

\* new SimpleWindow(), in the program `lang`
NewSimpleWindow(lang) ==
    /\ Len(windows) < MaxWindows
    /\ windowLang \in {"none", lang}
    /\ windowLang' = lang
    /\ windows' = Append(windows, [kind |-> "SimpleWindow", window |-> 0])
    /\ UNCHANGED <<drawn, notWindow>>

\* new BorderDecorator(w), new VerticalScrollBarDecorator(w), or
\* new BorderedWindowDecorator(w), for a window w made before
NewDecorator(kind, w) ==
    /\ Len(windows) < MaxWindows
    /\ kind \in DecoratorKinds(windowLang)
    /\ windows' = Append(windows, [kind |-> kind, window |-> w])
    /\ UNCHANGED <<windowLang, drawn, notWindow>>

\* w.draw(), called by the client
Draw(w) ==
    /\ drawn' = [window |-> w, out |-> DrawOf(w)]
    /\ UNCHANGED <<windowLang, windows, notWindow>>

NextWindow ==
    \/ \E lang \in Languages : NewSimpleWindow(lang)
    \/ \E w \in DOMAIN windows :
           \E kind \in DecoratorKinds("java") \cup DecoratorKinds("ts") :
               NewDecorator(kind, w)
    \/ \E w \in DOMAIN windows : Draw(w)

(***************************************************************************)
(* Facade.  The constructor makes the three subsystem objects and keeps    *)
(* them in private fields; an operation prints a line and then calls two   *)
(* of them.  The calls of one client follow each other.                    *)
(***************************************************************************)

\* Bounds: how many facades the client constructs, and how many facade
\* operations it calls.
MaxFacades == 2
MaxFacadeCalls == 3

FacadeOperations == {"operation1", "operation2"}

\* The statements of the subsystem methods: what each prints.
SubsystemPrints(method) ==
    CASE method = "operationA" -> "Subsystem A: operation A"
      [] method = "operationB" -> "Subsystem B: operation B"
      [] method = "operationC" -> "Subsystem C: operation C"

\* An operation1 that calls subsystem B before subsystem A.
Operation1BodyBFirst ==
    <<[field |-> "subsystemB", method |-> "operationB"],
      [field |-> "subsystemA", method |-> "operationA"]>>

\* The subsystem calls of operation1, in program order.
Operation1Body ==
    <<[field |-> "subsystemA", method |-> "operationA"],
      [field |-> "subsystemB", method |-> "operationB"]>>

\* The subsystem calls of operation2, in program order.
Operation2Body ==
    <<[field |-> "subsystemB", method |-> "operationB"],
      [field |-> "subsystemC", method |-> "operationC"]>>

OperationBody(op) == IF op = "operation1" THEN Operation1Body ELSE Operation2Body

FacadeIdle == facadeCall.at = 0

\* new Facade(): three new subsystem objects, numbered as they are made.
NewFacade ==
    /\ FacadeIdle
    /\ Len(facades) < MaxFacades
    /\ facades' = Append(facades, [subsystemA |-> 3 * Len(facades) + 1,
                                   subsystemB |-> 3 * Len(facades) + 2,
                                   subsystemC |-> 3 * Len(facades) + 3])
    /\ UNCHANGED <<facadeCall, facadeOps, subsystemLog, facadeOut, notFacade>>

\* The client calls operation1() or operation2() on facade f; the first
\* statement prints the facade's line.
BeginOperation(f, op) ==
    /\ FacadeIdle
    /\ Len(facadeOps) < MaxFacadeCalls
    /\ facadeCall' = [facade |-> f, op |-> op, at |-> 1]
    /\ facadeOps' = Append(facadeOps, [facade |-> f, op |-> op])
    /\ facadeOut' = Append(facadeOut,
                           IF op = "operation1" THEN "Facade: operation 1"
                           ELSE "Facade: operation 2")
    /\ UNCHANGED <<facades, subsystemLog, notFacade>>

Operation1(f) == BeginOperation(f, "operation1")

Operation2(f) == BeginOperation(f, "operation2")

\* The next statement of the operation in progress: a call on the subsystem
\* object held in one of the facade's fields.  After the last one the
\* operation returns.
SubsystemCall ==
    /\ ~FacadeIdle
    /\ LET body == OperationBody(facadeCall.op)
           stmt == body[facadeCall.at]
       IN /\ subsystemLog' = Append(subsystemLog,
                                    [on |-> facades[facadeCall.facade][stmt.field],
                                     method |-> stmt.method])
          /\ facadeOut' = Append(facadeOut, SubsystemPrints(stmt.method))
          /\ facadeCall' = IF facadeCall.at = Len(body)
                             THEN [facadeCall EXCEPT !.at = 0]
                             ELSE [facadeCall EXCEPT !.at = @ + 1]
    /\ UNCHANGED <<facades, facadeOps, notFacade>>

NextFacade ==
    \/ NewFacade
    \/ \E f \in DOMAIN facades : Operation1(f)
    \/ \E f \in DOMAIN facades : Operation2(f)
    \/ SubsystemCall

(***************************************************************************)
(* Initial state and specifications                                        *)
(***************************************************************************)

PrototypeInit ==
    /\ heap = <<>>
    /\ pairs = {}
    /\ protoLast = [op |-> "none", target |-> 0, ref |-> 0]

IteratorInit ==
    /\ playlistMade = FALSE
    /\ songs = <<>>
    /\ position = <<>>
    /\ returned = <<>>
    /\ itLast = [op |-> "none", it |-> 0, result |-> "none"]

MementoInit ==
    /\ content = NullContent
    /\ history = <<>>
    /\ memLast = [op |-> "none", result |-> NullMemento, raised |-> "none"]
    /\ script = "saved"
    /\ changes = <<>>
    /\ undone = 0

ObserverInit ==
    /\ observers = <<>>
    /\ stockPrices = EmptyMap
    /\ notified = <<>>
    /\ detached = [o \in Traders |-> FALSE]
    /\ obsLast = [op |-> "none", observer |-> "none", stock |-> "none", price |-> 0]

BuilderInit ==
    /\ builders = <<>>
    /\ houses = <<>>
    /\ built = <<>>

ChainInit ==
    /\ next = [h \in Handlers |-> NoHandler]
    /\ chainLast = [op |-> "none", handler |-> "none", request |-> "none",
                    steps |-> <<>>, printed |-> "", raised |-> "none",
                    returned |-> "void"]

MediatorInit ==
    /\ colleagues = <<>>
    /\ received = <<>>
    /\ medLast = [op |-> "none", user |-> "none", message |-> "none", raised |-> "none"]

PaymentInit ==
    /\ strategy = NoStrategy
    /\ lastSet = "none"
    /\ everSet = {}
    /\ payCalls = <<>>
    /\ payLast = [op |-> "none", amount |-> 0, printed |-> "", raised |-> "none"]

WindowInit ==
    /\ windowLang = "none"
    /\ windows = <<>>
    /\ drawn = [window |-> 0, out |-> <<>>]

FacadeInit ==
    /\ facades = <<>>
    /\ facadeCall = [facade |-> 0, op |-> "none", at |-> 0]
    /\ facadeOps = <<>>
    /\ subsystemLog = <<>>
    /\ facadeOut = <<>>

OrderInit ==
    /\ processors = <<>>
    /\ orderCall = [processor |-> 0, at |-> 0]
    /\ invoked = <<>>
    /\ orderOut = <<>>

CallInit ==
    /\ callStack = <<>>
    /\ callRequest = "none"
    /\ callState = "idle"
    /\ callOut = ""

PlayerInit ==
    /\ currentState = "StoppedState"
    /\ playerOut = <<>>
    /\ playerLast = [op |-> "none", raised |-> "none"]

CommandInit ==
    /\ cmdCircle = Circle(10, "Red")
    /\ commands = <<>>
    /\ commandHistory = <<>>
    /\ before = <<>>
    /\ execIds = <<>>
    /\ undoneIds = <<>>
    /\ nExecuted = 0
    /\ cmdLast = [op |-> "none", command |-> 0, raised |-> "none"]

Init ==
    /\ SingletonInit /\ PrototypeInit /\ IteratorInit /\ MementoInit
    /\ ObserverInit /\ BuilderInit /\ ChainInit /\ PlayerInit /\ CommandInit
    /\ CallInit /\ MediatorInit /\ OrderInit /\ PaymentInit /\ WindowInit
    /\ FacadeInit

SpecSingleton == Init /\ [][NextSingleton]_vars
SpecSingletonMT == Init /\ [][NextSingletonMT]_vars
SpecPrototype == Init /\ [][NextPrototype]_vars
SpecIterator == Init /\ [][NextIterator]_vars
SpecMemento == Init /\ [][NextMemento]_vars
SpecObserver == Init /\ [][NextObserver]_vars
SpecBuilder == Init /\ [][NextBuilder]_vars
SpecChain == Init /\ [][NextChain]_vars
\* A call that has started runs on: the thread executing it is not suspended
\* for ever.
SpecChainCalls == Init /\ [][NextChainCalls]_vars /\ WF_vars(HandleStep)
SpecPlayer == Init /\ [][NextPlayer]_vars
SpecCommand == Init /\ [][NextCommand]_vars
SpecMediator == Init /\ [][NextMediator]_vars
SpecOrder == Init /\ [][NextOrder]_vars
SpecPayment == Init /\ [][NextPayment]_vars
SpecWindow == Init /\ [][NextWindow]_vars
SpecFacade == Init /\ [][NextFacade]_vars

(***************************************************************************)
(* Claims: Singleton                                                       *)
(***************************************************************************)

\* C1: every getInstance() call of a sequence of calls returns the same
\* Logger: all references obtained are the one instance (never null), one
\* Logger only was constructed, and the instance, once created, never changes.
C1_SameInstance ==
    /\ [](/\ \A i \in DOMAIN refs : refs[i] # Null /\ refs[i] = instance
          /\ \A i, j \in DOMAIN refs : refs[i] = refs[j]
          /\ nLoggers <= 1)
    /\ [][instance # Null => instance' = instance]_vars

\* Two calls have returned, and the logger was used.
C1_Witness ==
    /\ Len(refs) >= 2
    /\ instance # Null
    /\ Len(console) >= 2

\* C2: under every interleaving of the threads' steps the constructor runs at
\* most once and every call returns that one instance.
C2_OneInstanceEveryThread ==
    /\ nLoggers <= 1
    /\ \A t \in Threads : \A k \in DOMAIN results[t] :
         results[t][k] # Null /\ results[t][k] = instance

(***************************************************************************)
(* Claims: Prototype                                                       *)
(***************************************************************************)

\* C3: clone() returns a new object, not the original, whose fields equal
\* the original's fields at the moment of the call (and the call leaves the
\* original as it was).
C3_CloneIsEqualCopy ==
    [][protoLast'.op = "clone" =>
        LET o == protoLast'.target
            c == protoLast'.ref
        IN /\ c # o
           /\ c \notin DOMAIN heap
           /\ c \in DOMAIN heap'
           /\ heap'[c] = heap[o]
           /\ heap'[o] = heap[o]]_vars

\* A rectangle whose width and height differ has just been cloned.
C3_Witness ==
    /\ protoLast.op = "clone"
    /\ IsRectangle(protoLast.target)
    /\ heap[protoLast.target].width # heap[protoLast.target].height
    /\ IsRectangle(protoLast.ref)
    /\ protoLast.ref # protoLast.target

\* C4: after clone(), a setter call on the clone leaves every field of the
\* original unchanged, and a setter call on the original leaves every field
\* of the clone unchanged.
C4_CloneAndOriginalIndependent ==
    [][\A p \in pairs :
        /\ (protoLast'.op = "set" /\ protoLast'.target = p[2]) => heap'[p[1]] = heap[p[1]]
        /\ (protoLast'.op = "set" /\ protoLast'.target = p[1]) => heap'[p[2]] = heap[p[2]]]_vars

\* A clone and its original differ after a setter call on one of them.
C4_Witness ==
    /\ protoLast.op = "set"
    /\ \E p \in pairs :
         /\ protoLast.target \in {p[1], p[2]}
         /\ heap[p[1]] # heap[p[2]]

(***************************************************************************)
(* Claims: Iterator                                                        *)
(***************************************************************************)

\* C5: the next() calls of an iterator return the songs at indices 0, 1, ...
\* in order, each once; hasNext() answers true exactly while fewer than n
\* songs have been returned, so it is false after the n-th next() and false
\* at once for an empty playlist.
C5_InOrderOnce ==
    /\ \A i \in DOMAIN position :
         /\ Len(returned[i]) <= Len(songs)
         /\ returned[i] = SubSeq(songs, 1, Len(returned[i]))
         /\ HasNext(position[i]) <=> Len(returned[i]) < Len(songs)
    /\ itLast.op = "hasNext" =>
         (itLast.result = "true" <=> Len(returned[itLast.it]) < Len(songs))
    /\ (itLast.op = "next" /\ itLast.result # "IllegalStateException") =>
         itLast.result = songs[Len(returned[itLast.it])]

\* An iterator has returned all the songs of a playlist of MaxSongs songs and
\* hasNext() has then answered false.
C5_Witness ==
    /\ Len(songs) = MaxSongs
    /\ itLast.op = "hasNext"
    /\ itLast.result = "false"
    /\ returned[itLast.it] = songs

\* C6: next() on an iterator with no remaining elements throws
\* IllegalStateException and leaves the position (and what was returned) as
\* it was, so hasNext() stays false and a later next() throws again.
C6_ExhaustedNextThrows ==
    [][\A i \in DOMAIN position :
        ~HasNext(position[i]) =>
            /\ position'[i] = position[i]
            /\ ~(position'[i] < Len(songs'))
            /\ returned'[i] = returned[i]
            /\ (itLast'.op = "next" /\ itLast'.it = i) =>
                   itLast'.result = "IllegalStateException"]_vars

\* next() has thrown on an iterator that went through a non-empty playlist.
C6_Witness ==
    /\ itLast.op = "next"
    /\ itLast.result = "IllegalStateException"
    /\ songs # <<>>
    /\ returned[itLast.it] = songs

\* C7: a hasNext() or next() call on one iterator changes neither the
\* position nor the results of another iterator of the same playlist, and an
\* iterator that has reached the end has yielded the whole song sequence in
\* order.
C7_IteratorsIndependent ==
    /\ [](\A i \in DOMAIN position : ~HasNext(position[i]) => returned[i] = songs)
    /\ [][\A i, j \in DOMAIN position :
            (i # j /\ itLast'.it = i /\ itLast'.op \in {"hasNext", "next"}) =>
                /\ position'[j] = position[j]
                /\ returned'[j] = returned[j]]_vars

\* Two iterators of one playlist, one at its end and the other in the middle.
C7_Witness ==
    /\ Len(position) = 2
    /\ Len(songs) >= 2
    /\ position[1] = Len(songs)
    /\ position[2] = 1
    /\ itLast.op = "next"

\* C28: the position of every iterator is between 0 and songs.length; it
\* never decreases, a next() that returns a song increases it by exactly one,
\* and neither hasNext() nor a next() that throws changes it.
C28_PositionBoundedAndMonotonic ==
    /\ [](\A i \in DOMAIN position : 0 <= position[i] /\ position[i] <= Len(songs))
    /\ [][\A i \in DOMAIN position :
            /\ position'[i] >= position[i]
            /\ (itLast'.it = i /\ itLast'.op = "next"
                  /\ itLast'.result # "IllegalStateException")
                 => position'[i] = position[i] + 1
            /\ (itLast'.it = i
                  /\ \/ itLast'.op = "hasNext"
                     \/ itLast'.op = "next"
                          /\ itLast'.result = "IllegalStateException")
                 => position'[i] = position[i]]_vars

\* An iterator in the middle of a full-length playlist has answered
\* hasNext(), beside an iterator that has returned every song.
C28_Witness ==
    /\ Len(songs) = MaxSongs
    /\ position = <<2, MaxSongs>>
    /\ returned[2] = songs
    /\ itLast = [op |-> "hasNext", it |-> 1, result |-> "true"]

(***************************************************************************)
(* Claims: Memento                                                         *)
(***************************************************************************)

C9_UndoReturnsToPreviousContent ==
    (script = "undoing" /\ changes = <<"State 1", "State 2", "State 3">>) =>
        /\ undone = 1 => content = "State 2"
        /\ undone = 2 => (content = "State 1" /\ UndoOf(history).result = NullMemento)

\* C10: undo() on an empty history returns null, raises nothing, leaves the
\* history empty and leaves the editor content unchanged.
C10_UndoOnEmptyHistory ==
    [][(memLast'.op = "undo" /\ history = <<>>) =>
        /\ memLast'.result = NullMemento
        /\ memLast'.raised = "none"
        /\ history' = <<>>
        /\ content' = content]_vars

\* undo() has returned null for an editor whose content is set, after
\* mementos had been saved and undone.
C10_Witness ==
    /\ memLast.op = "undo"
    /\ memLast.result = NullMemento
    /\ history = <<>>
    /\ content \in Contents

\* C11: editor.restore(caretaker.undo()) executed when the history is empty
\* has no effect on the editor content and raises no error.
C11_UndoPastBeginningIsGraceful ==
    [][(memLast'.op = "restore(undo)" /\ history = <<>>) =>
        /\ content' = content
        /\ history' = <<>>
        /\ memLast'.raised = "none"]_vars


(***************************************************************************)
(* Observer claims                                                         *)
(***************************************************************************)

\* C12: getPrice(stock) returns the price of the most recent setPrice for that
\* stock, whatever setPrice calls for other stocks and attach/detach calls
\* are made, and 0.0 for a stock whose price was never set: no price is set
\* initially, a setPrice changes the price of its stock to its argument and
\* of no other stock, and attach and detach change no price.
C12_GetPriceIsLastSetPrice ==
    /\ [](obsLast.op = "none" => \A s \in Stocks : GetPrice(stockPrices, s) = 0)
    /\ [][/\ obsLast'.op = "setPrice" =>
               /\ GetPrice(stockPrices', obsLast'.stock) = obsLast'.price
               /\ \A s \in Stocks \ {obsLast'.stock} :
                      GetPrice(stockPrices', s) = GetPrice(stockPrices, s)
          /\ obsLast'.op \in {"attach", "detach"} =>
               \A s \in Stocks : GetPrice(stockPrices', s) = GetPrice(stockPrices, s)]_vars

C12_Witness ==
    /\ obsLast.op = "detach"
    /\ "AAPL" \in DOMAIN stockPrices /\ "GOOG" \notin DOMAIN stockPrices
    /\ GetPrice(stockPrices, "AAPL") = 160
    /\ GetPrice(stockPrices, "GOOG") = 0

\* C13: a setPrice(stock, price) calls update(stock, price) on every observer
\* attached at that moment, once per place it has in the list, with the stock
\* and price just set, in the order of attachment (attach puts an observer
\* last; detach leaves the order of the others as it is).
C13_SetPriceNotifiesAllInOrder ==
    [][/\ obsLast'.op = "setPrice" =>
            /\ Len(notified') = Len(observers)
            /\ \A i \in 1 .. Len(observers) :
                   notified'[i] = <<observers[i], obsLast'.stock, obsLast'.price>>
       /\ obsLast'.op = "attach" =>
            /\ SubSeq(observers', 1, Len(observers)) = observers
            /\ observers'[Len(observers')] = obsLast'.observer
       /\ obsLast'.op = "detach" =>
            \E k \in 0 .. Len(observers) :
                observers' = SubSeq(observers, 1, k - 1)
                                \o SubSeq(observers, k + 1, Len(observers))]_vars

C13_Witness ==
    /\ obsLast.op = "setPrice"
    /\ observers = <<"Bob", "Alice">>
    /\ notified = <<<<"Bob", "GOOG", 160>>, <<"Alice", "GOOG", 160>>>>

\* C14: after detach(o), and until o is attached again, no setPrice calls
\* update on o, whatever calls came before the detach.
C14_DetachedObserverNotNotified ==
    [][obsLast'.op = "setPrice" =>
          \A o \in Traders :
              detached[o] => \A i \in DOMAIN notified' : notified'[i][1] # o]_vars


(***************************************************************************)
(* Builder claims                                                          *)
(***************************************************************************)

\* C15: once constructHouse(), or each of the four build steps, has been
\* called on a builder, getHouse() returns a House whose four parts are all
\* set, each to the material of that builder's class; whatever is done with
\* other builders, no part of it comes from them.
C15_HouseBuiltFromOwnMaterials ==
    \A b \in DOMAIN builders :
        built[b] = Parts =>
            /\ GetHouse(b).foundation =
                   (IF builders[b].kind = "WoodenHouseBuilder"
                      THEN "Wooden Piles" ELSE "Concrete and Steel")
            /\ GetHouse(b).structure =
                   (IF builders[b].kind = "WoodenHouseBuilder"
                      THEN "Wood and Bamboo" ELSE "Brick and Mortar")
            /\ GetHouse(b).roof =
                   (IF builders[b].kind = "WoodenHouseBuilder"
                      THEN "Wooden Shingles" ELSE "Concrete Slabs")
            /\ GetHouse(b).interior =
                   (IF builders[b].kind = "WoodenHouseBuilder"
                      THEN "Wooden Panels" ELSE "Plastered Walls")

C15_Witness ==
    /\ Len(builders) = 2
    /\ builders[1].kind = "WoodenHouseBuilder"
    /\ builders[2].kind = "BrickHouseBuilder"
    /\ built[1] = Parts /\ built[2] = Parts
    /\ GetHouse(1).roof = "Wooden Shingles"
    /\ GetHouse(2).roof = "Concrete Slabs"


(***************************************************************************)
(* Chain of Responsibility claims                                          *)
(***************************************************************************)

\* C16: handleRequest returns a response naming the handler that processed
\* the request, and null when no handler in the chain processed it.
C16_HandleRequestReturnsResponse ==
    chainLast.op = "handleRequest" =>
        LET resolved == {i \in DOMAIN chainLast.steps :
                             chainLast.steps[i].did = "resolve"}
        IN IF resolved = {}
             THEN chainLast.returned = "null"
             ELSE \E i \in resolved :
                      chainLast.returned =
                          chainLast.steps[i].handler \o " Handler processed the request."

\* C17 as stated: a handleRequest with the request 'basic', 'intermediate'
\* or 'complex' is resolved by exactly one handler, the last one invoked,
\* and every handler invoked before it only forwards.
C17_ExactlyOneHandlerResolves ==
    (chainLast.op = "handleRequest"
       /\ chainLast.request \in {"basic", "intermediate", "complex"}) =>
        LET steps == chainLast.steps
        IN /\ Cardinality({i \in DOMAIN steps : steps[i].did = "resolve"}) = 1
           /\ steps[Len(steps)].did = "resolve"
           /\ \A i \in 1 .. Len(steps) - 1 : steps[i].did = "forward"

\* C17, amended: when some handler on the chain from the handler that
\* handleRequest is called on recognises the request, exactly the first such
\* handler in chain order resolves it, every handler before it only forwards
\* and no handler after it is invoked; when none does, no handler resolves
\* it.  In both cases at most one handler resolves the request.
C17_FirstRecogniserResolves ==
    chainLast.op = "handleRequest" =>
        LET steps == chainLast.steps
            request == chainLast.request
            nth[i \in 1 .. Cardinality(Handlers)] ==
                IF i = 1 THEN chainLast.handler
                ELSE IF nth[i - 1] = NoHandler THEN NoHandler
                ELSE next[nth[i - 1]]
            K == {i \in DOMAIN nth :
                      nth[i] # NoHandler /\ Recognises(nth[i], request)}
        IN /\ Cardinality({i \in DOMAIN steps : steps[i].did = "resolve"}) <= 1
           /\ IF K # {}
                THEN LET k == CHOOSE i \in K : \A j \in K : i <= j
                     IN /\ Len(steps) = k
                        /\ \A i \in 1 .. k - 1 :
                               steps[i] = [handler |-> nth[i], did |-> "forward"]
                        /\ steps[k] = [handler |-> nth[k], did |-> "resolve"]
                        /\ chainLast.raised = "none"
                ELSE \A i \in DOMAIN steps : steps[i].did # "resolve"

C17_Witness ==
    /\ chainLast.op = "handleRequest"
    /\ chainLast.handler = "Automated"
    /\ chainLast.request = "complex"
    /\ next = [h \in Handlers |->
                  CASE h = "Automated" -> "Agent"
                    [] h = "Agent" -> "Supervisor"
                    [] OTHER -> NoHandler]
    /\ chainLast.steps = <<[handler |-> "Automated", did |-> "forward"],
                           [handler |-> "Agent", did |-> "forward"],
                           [handler |-> "Supervisor", did |-> "resolve"]>>
    /\ chainLast.printed = "SupervisorHandler: Resolving complex request."


C18_PlayerFollowsTransitions ==
    /\ [](playerLast.op = "none" => currentState = "StoppedState")
    /\ [][/\ (playerLast'.op = "play"
                /\ currentState \in {"StoppedState", "PausedState"})
               => currentState' = "PlayingState"
          /\ (playerLast'.op = "pause" /\ currentState = "PlayingState")
               => currentState' = "PausedState"
          /\ (playerLast'.op = "stop"
                /\ currentState \in {"PlayingState", "PausedState"})
               => currentState' = "StoppedState"
          /\ currentState' # currentState =>
               <<currentState, playerLast'.op, currentState'>> \in
                   {<<"StoppedState", "play", "PlayingState">>,
                    <<"PausedState", "play", "PlayingState">>,
                    <<"PlayingState", "pause", "PausedState">>,
                    <<"PlayingState", "stop", "StoppedState">>,
                    <<"PausedState", "stop", "StoppedState">>}]_vars

C18_Witness ==
    /\ playerOut = <<"Starting playback...", "Pausing playback...",
                     "Resuming playback...", "Stopping playback...">>
    /\ currentState = "StoppedState"
    /\ playerLast.op = "stop"

\* C19: pause or stop while Stopped, play while Playing and pause while
\* Paused leave the state of the player as it is and raise no error.
C19_InvalidOperationsChangeNothing ==
    [][(\/ playerLast'.op \in {"pause", "stop"} /\ currentState = "StoppedState"
        \/ playerLast'.op = "play" /\ currentState = "PlayingState"
        \/ playerLast'.op = "pause" /\ currentState = "PausedState")
         => /\ currentState' = currentState
            /\ playerLast'.raised = "none"]_vars

C19_Witness ==
    /\ playerOut = <<"Cannot pause. The media player is stopped.",
                     "Already stopped!", "Starting playback...",
                     "Already playing!", "Pausing playback...", "Already paused!">>
    /\ currentState = "PausedState"
    /\ playerLast = [op |-> "pause", raised |-> "none"]


(***************************************************************************)
(* Command claims                                                          *)
(***************************************************************************)

\* C20: an undoLastCommand() that undoes command c leaves the attribute c
\* changes with the value it had immediately before c was executed, and
\* when it empties the history the circle is as it was before the first
\* execution in the history.
C20_UndoRestoresValueBeforeExecute ==
    [][(cmdLast'.op = "undoLastCommand" /\ commandHistory # <<>>) =>
          LET c == commands[commandHistory[Len(commandHistory)]]
              was == before[Len(before)]
          IN /\ c.kind = "Resize" => cmdCircle'.radius = was.radius
             /\ c.kind = "ChangeColor" => cmdCircle'.color = was.color
             /\ commandHistory' = <<>> => cmdCircle' = before[1]]_vars


\* C27: undoLastCommand undoes the latest execution not yet undone (reverse
\* order of execution), no execution twice, and never more executions than
\* were made; on an empty history it changes neither the circle nor the
\* history and raises no error.
C27_UndoInReverseOrderOfExecution ==
    /\ [](/\ Len(undoneIds) <= nExecuted
          /\ \A i, j \in DOMAIN undoneIds : undoneIds[i] = undoneIds[j] => i = j)
    /\ [][cmdLast'.op = "undoLastCommand" =>
            IF commandHistory = <<>>
              THEN /\ cmdCircle' = cmdCircle
                   /\ commandHistory' = <<>>
                   /\ undoneIds' = undoneIds
                   /\ cmdLast'.raised = "none"
              ELSE LET live == {id \in 1 .. nExecuted :
                                    \A i \in DOMAIN undoneIds : undoneIds[i] # id}
                       latest == CHOOSE id \in live : \A other \in live : other <= id
                   IN /\ live # {}
                      /\ undoneIds' = Append(undoneIds, latest)
                      /\ cmdLast'.command = commandHistory[Len(commandHistory)]
                      /\ commandHistory' =
                             SubSeq(commandHistory, 1, Len(commandHistory) - 1)
                      /\ cmdLast'.raised = "none"]_vars

C27_Witness ==
    /\ undoneIds = <<2, 3, 1>>
    /\ commandHistory = <<>>
    /\ cmdLast = [op |-> "undoLastCommand", command |-> 0, raised |-> "none"]


(***************************************************************************)
(* Mediator claims                                                         *)
(***************************************************************************)

\* C21: a send by user u makes the mediator call receive(message), with the
\* message sent, on every registered colleague other than u, once per place
\* it has in the list, and on nobody else: never on u, registered or not.
\* When no other colleague is registered nobody receives anything, and no
\* error is raised.
C21_EveryoneButTheSenderReceives ==
    [][medLast'.op = "send" =>
          LET u == medLast'.user
              timesIn(list, c) == Cardinality({i \in DOMAIN list : list[i] = c})
              calls == [i \in DOMAIN received' |-> received'[i][1]]
          IN /\ \A i \in DOMAIN received' :
                    /\ received'[i][1] # u
                    /\ received'[i][2] = medLast'.message
             /\ \A c \in Users \ {u} : timesIn(calls, c) = timesIn(colleagues, c)
             /\ (\A i \in DOMAIN colleagues : colleagues[i] = u) => received' = <<>>
             /\ medLast'.raised = "none"]_vars

\* Bob, registered between Alice and Charlie, has sent a message.
C21_Witness ==
    /\ colleagues = <<"Alice", "Bob", "Charlie">>
    /\ medLast.op = "send" /\ medLast.user = "Bob"
    /\ received = <<<<"Alice", medLast.message>>, <<"Charlie", medLast.message>>>>


(***************************************************************************)
(* Template Method claims                                                  *)
(***************************************************************************)

\* C22: a processOrder() call on a processor of any class invokes
\* selectItems, applyDiscount, doPayment and deliverItems in that order,
\* all on the processor it was called on: what it has invoked so far is
\* always the beginning of that list, and all of it, each step once, when
\* the call has returned.
C22_StepsOnceEachInOrder ==
    LET order == <<"selectItems", "applyDiscount", "doPayment", "deliverItems">>
    IN orderCall.processor \in DOMAIN processors =>
         /\ Len(invoked) = orderCall.at - 1
         /\ Len(invoked) <= 4
         /\ \A i \in DOMAIN invoked :
                invoked[i] = [on |-> orderCall.processor, step |-> order[i]]
         /\ orderCall.at = 5 <=> Len(invoked) = 4

\* A gift order has been processed after another order.
C22_Witness ==
    /\ orderCall.at = 5
    /\ Len(processors) = 2
    /\ processors[orderCall.processor] = "GiftOrder"
    /\ Len(invoked) = 4
    /\ orderOut[4] = "GiftOrder: Delivering items with gift wrapping."


(***************************************************************************)
(* Strategy claims                                                         *)
(***************************************************************************)

\* C23: a context.pay(amount) made after setPaymentStrategy was last called
\* with a strategy calls pay(amount) exactly once on that strategy, with the
\* same amount, and on no other strategy: a strategy that has been replaced
\* is not invoked again.
C23_PayUsesLatestStrategy ==
    [][(payLast'.op = "pay" /\ lastSet \in Strategies) =>
          /\ payCalls' = <<[strategy |-> lastSet, amount |-> payLast'.amount]>>
          /\ \A old \in everSet \ {lastSet} :
                 \A i \in DOMAIN payCalls' : payCalls'[i].strategy # old]_vars

\* A payment through PayPal after the credit card and Google Pay strategies
\* have been replaced.
C23_Witness ==
    /\ everSet = Strategies
    /\ lastSet = "PayPalPayment"
    /\ payLast.op = "pay" /\ payLast.amount = 150
    /\ payCalls = <<[strategy |-> "PayPalPayment", amount |-> 150]>>
    /\ payLast.printed = "Paid $150.0 using PayPal account: user@example.com"

\* C24: a context.pay(amount) made while no strategy is set prints
\* 'No payment strategy set!', raises no error, calls no strategy and
\* leaves the context as it is.
C24_PayWithoutStrategyReports ==
    [][(payLast'.op = "pay" /\ strategy = NoStrategy) =>
          /\ payLast'.printed = "No payment strategy set!"
          /\ payLast'.raised = "none"
          /\ payCalls' = <<>>
          /\ strategy' = strategy]_vars

\* pay(50.0) on a context whose strategy was never set.
C24_Witness ==
    /\ lastSet = "none"
    /\ payLast = [op |-> "pay", amount |-> 50,
                  printed |-> "No payment strategy set!", raised |-> "none"]
    /\ payCalls = <<>>


(***************************************************************************)
(* Decorator claims                                                        *)
(***************************************************************************)

\* C25: draw() on a window that is n - 1 decorators around a SimpleWindow
\* prints n lines: first the simple window's, then the decorations' from the
\* innermost decorator to the outermost, each once.
C25_DrawsInsideOut ==
    drawn.window \in DOMAIN windows =>
        LET wrapped[i \in 1 .. MaxWindows] ==
                IF i = 1 THEN drawn.window
                ELSE IF wrapped[i - 1] = 0 THEN 0
                ELSE windows[wrapped[i - 1]].window
            n == Cardinality({i \in DOMAIN wrapped : wrapped[i] # 0})
        IN /\ windows[wrapped[n]].kind = "SimpleWindow"
           /\ Len(drawn.out) = n
           /\ drawn.out[1] = "Drawing a simple window"
           /\ \A j \in 2 .. n :
                  /\ windows[wrapped[n + 1 - j]].kind # "SimpleWindow"
                  /\ drawn.out[j] =
                         (CASE windows[wrapped[n + 1 - j]].kind = "BorderDecorator" ->
                                 "Drawing a border"
                            [] windows[wrapped[n + 1 - j]].kind
                                   = "VerticalScrollBarDecorator" ->
                                 "Drawing a vertical scroll bar"
                            [] windows[wrapped[n + 1 - j]].kind
                                   = "BorderedWindowDecorator" ->
                                 "Drawing a border around the window")

\* The window of Client.main, with one more border around it, has been drawn.
C25_Witness ==
    /\ windows = <<[kind |-> "SimpleWindow", window |-> 0],
                   [kind |-> "BorderDecorator", window |-> 1],
                   [kind |-> "VerticalScrollBarDecorator", window |-> 2],
                   [kind |-> "BorderDecorator", window |-> 3]>>
    /\ drawn.window = 4
    /\ drawn.out = <<"Drawing a simple window", "Drawing a border",
                     "Drawing a vertical scroll bar", "Drawing a border">>


(***************************************************************************)
(* Facade claims                                                           *)
(***************************************************************************)

\* C26: the calls on subsystem objects are, facade call after facade call,
\* A.operationA then B.operationB for an operation1 and B.operationB then
\* C.operationC for an operation2, on the subsystem objects the called
\* facade's constructor made, and there are no others: an operation1 never
\* reaches a SubsystemC and an operation2 never a SubsystemA.
C26_SubsystemCallsInPairs ==
    LET done == IF facadeCall.at = 0 THEN Len(facadeOps) ELSE Len(facadeOps) - 1
    IN /\ Len(subsystemLog) =
              2 * done + (IF facadeCall.at = 0 THEN 0 ELSE facadeCall.at - 1)
       /\ \A i \in DOMAIN subsystemLog :
              LET call == facadeOps[(i + 1) \div 2]
                  f == call.facade
                  first == i % 2 = 1
              IN subsystemLog[i] =
                     CASE call.op = "operation1" /\ first ->
                            [on |-> 3 * (f - 1) + 1, method |-> "operationA"]
                       [] call.op = "operation1" /\ ~first ->
                            [on |-> 3 * (f - 1) + 2, method |-> "operationB"]
                       [] call.op = "operation2" /\ first ->
                            [on |-> 3 * (f - 1) + 2, method |-> "operationB"]
                       [] call.op = "operation2" /\ ~first ->
                            [on |-> 3 * (f - 1) + 3, method |-> "operationC"]

\* operation1 on the second facade, then operation2 on the first and on the
\* second, all returned.
C26_Witness ==
    /\ facadeCall.at = 0
    /\ facadeOps = <<[facade |-> 2, op |-> "operation1"],
                     [facade |-> 1, op |-> "operation2"],
                     [facade |-> 2, op |-> "operation2"]>>
    /\ Len(subsystemLog) = 6
    /\ subsystemLog[1] = [on |-> 4, method |-> "operationA"]
    /\ subsystemLog[4] = [on |-> 3, method |-> "operationC"]
    /\ facadeOut[1] = "Facade: operation 1"

====
